---- MODULE Spec2Model ----
(***************************************************************************)
(* Image-match-finder: the descriptor cache builder (core/cacher.py), the  *)
(* match searcher (core/searcher.py) and the callers that drive them       *)
(* (main.py, pipeline.py).                                                 *)
(*                                                                         *)
(* Images are abstracted by what the vision primitives return for them:    *)
(* whether cv2.imread decodes them, whether processing raises, and how     *)
(* many keypoints/descriptors ORB finds.  A descriptor array and a         *)
(* keypoint list are represented by their lengths (they are index-aligned, *)
(* one descriptor per keypoint).  Hamming distances are integers, so       *)
(* m.distance < 0.75 * n.distance is computed exactly as 4*m < 3*n.        *)
(***************************************************************************)
EXTENDS Integers, Sequences, FiniteSets, TLC

VARIABLES
    \* --- DescriptorCacher.create_and_save_cache and its caller
    image_paths,          \* self.image_paths
    i,                    \* number of loop iterations completed
    data_to_cache,        \* the dict being filled, in insertion order
    img,                  \* what imread/detectAndCompute give for each path
    bpc,                  \* position of the builder
    cache_file,           \* the artifact at DESCRIPTORS_CACHE_PATH
    processed,            \* the paths the loop body has run for, in order
    writes,               \* number of completed writes of the cache
    prior,                \* the file at the cache path when the run started
    \* --- Searcher.find_match
    cached_data,          \* self.cached_data, in dict iteration order
    query,                \* what imread/detectAndCompute give for the query
    spc,                  \* position of find_match
    idx,                  \* number of cache entries iterated so far
    max_inliers,
    best_candidate_path,
    result,               \* the value find_match returned
    evals,                \* per-entry record of what the scan did
    ne_max,               \* the same scan with step 5 (early exit) removed
    ne_best,
    \* --- Lowe's ratio filter on one knnMatch result
    matches,
    good_matches,
    rpc,
    \* --- main.main / pipeline.run_pipeline
    ppc,                  \* stage of the pipeline run
    mode,                 \* "main" (main.py) or "pipeline" (pipeline.py)
    keep_unmatched_images,
    handled,              \* per handled query: what find_match returned, how the copy went
    nqueries,             \* len(group1_data); query k has index k - 1
    qi,                   \* number of queries handled so far
    results_with_indices,
    final_list,
    load_saw,             \* kind of the artifact when Searcher.__init__ opened it
    other_pc,             \* a second pipeline run writing the same cache path
    \* --- one Searcher asked about the same images again and again
    cur_q,                \* the query image of the current call
    qmemo,                \* what decoding/describing each query image gives
    vision,               \* what knnMatch/findHomography give per (query, entry)
    answered,             \* the first answer given for each query image
    calls,                \* number of find_match calls so far
    loaded,               \* the cache as Searcher.__init__ loaded it
    \* --- one cache entry from ORB through the artifact to the matcher
    keypoints,            \* kp of detectAndCompute: a list of cv2.KeyPoint
    orb_des,              \* des of detectAndCompute: one row per keypoint
    kp_data,              \* _keypoints_to_json(kp)
    stored,               \* the pickled entry
    data,                 \* the entry as unpickled
    kp2,                  \* _json_to_keypoints(data['kp_data'])
    des2,                 \* data['des']
    tpc,
    \* --- image_link_manager.ImageLinkManager and the CSV it edits
    use_redis,            \* run_pipeline(use_redis)
    redis_csv,            \* the value at the Redis key '<chat>:csv:raw'
    disk_csv,             \* the file at the manager's output_path
    mgr,                  \* the manager: headers and parsed rows
    row_index,            \* argument of set_image_links / get_image_links
    new_links,            \* argument of set_image_links
    mgr2,                 \* a manager made by parsing the saved content again
    got,                  \* what get_image_links returned
    cpc

vars == <<image_paths, i, data_to_cache, img, bpc, cache_file, processed, writes, prior,
          cached_data, query, spc, idx, max_inliers, best_candidate_path,
          result, evals, ne_max, ne_best, matches, good_matches, rpc,
          ppc, mode, handled, keep_unmatched_images, nqueries, qi, results_with_indices,
          final_list, load_saw, other_pc,
          cur_q, qmemo, vision, answered, calls, loaded,
          keypoints, orb_des, kp_data, stored, data, kp2, des2, tpc,
          use_redis, redis_csv, disk_csv, mgr, row_index, new_links, mgr2, got, cpc>>

buildVars  == <<image_paths, i, data_to_cache, img, bpc, cache_file, processed, writes, prior>>
searchVars == <<cached_data, query, spc, idx, max_inliers,
                best_candidate_path, result, evals, ne_max, ne_best>>
ratioVars  == <<matches, good_matches, rpc>>
pipeVars   == <<ppc, mode, handled, keep_unmatched_images, nqueries, qi,
                results_with_indices, final_list, load_saw, other_pc>>
repeatVars == <<cur_q, qmemo, vision, answered, calls, loaded>>
tripVars   == <<keypoints, orb_des, kp_data, stored, data, kp2, des2, tpc>>
csvVars    == <<use_redis, redis_csv, disk_csv, mgr, row_index, new_links, mgr2, got, cpc>>
laterVars  == <<pipeVars, repeatVars, tripVars, csvVars>>
sideVars   == <<ratioVars, repeatVars, tripVars, csvVars>>

-----------------------------------------------------------------------------
(* Program constants (settings.py) *)

RANSAC_MIN_INLIERS == 15
MIN_CANDIDATE_MATCHES == 20

(* Bounds of the model *)

NumPaths == 2        \* distinct reference image paths
MaxImages == 3       \* length of the builder's input sequence
MaxDes == 2          \* descriptors ORB finds in one reference image
MaxEntries == 3      \* entries of a loaded cache
MaxQueryDes == 16    \* descriptors ORB finds in the query image
MaxDist == 4         \* largest Hamming distance
MaxRows == 2         \* rows of a knnMatch result fed to the ratio filter alone
MaxQueries == 2      \* query images of one pipeline run
MaxConcImages == 1   \* reference images of a run that has a concurrent run
MaxConcQueries == 1  \* query images of a run that has a concurrent run
NumQueryImages == 2  \* distinct query images one Searcher is asked about
MaxCalls == 3        \* find_match calls on one Searcher
MaxRepeatEntries == 1 \* entries of the cache of a Searcher asked repeatedly
MaxLoopImages == 2   \* reference images of the run whose loops are followed to the end
MaxLoopQueries == 1  \* query images of that run
MaxKp == 2           \* keypoints of the entry taken through serialisation
MaxRedisRows == 2    \* data rows of the CSV held in Redis
MaxCsvRows == 2      \* data rows of the CSV
MaxLinks == 2        \* links in the list given to set_image_links
MaxField == 3        \* largest keypoint coordinate and angle, in float32 steps

\* Python's None, for a path and for an array
None == 0
NoArray == -1

Paths == 1..NumPaths

ExceptionTypes == {"cv2.error", "ValueError"}

Range(s) == {s[j] : j \in 1..Len(s)}

-----------------------------------------------------------------------------
(* core/cacher.py *)

\* One cache entry: data_to_cache[path] = {'kp_data': ..., 'des': des}
Entry(path, n) == [path |-> path, kp_data |-> n, des |-> n]

HasKey(d, path) == \E j \in 1..Len(d) : d[j].path = path

\* d[path] = e on a Python dict: a new key is appended, an existing key keeps
\* its position and gets the new value
DictSet_MoveToEnd(d, e) ==
    LET Others(x) == x.path # e.path IN Append(SelectSeq(d, Others), e)

DictSet(d, e) ==
    IF HasKey(d, e.path)
    THEN [j \in 1..Len(d) |-> IF d[j].path = e.path THEN e ELSE d[j]]
    ELSE Append(d, e)

\* What processing one reference image does
ImageOutcomes ==
    {[kind |-> "imread_none", exc |-> "none", n |-> 0]}
    \cup {[kind |-> "raises", exc |-> t, n |-> 0] : t \in ExceptionTypes}
    \cup {[kind |-> "des", exc |-> "none", n |-> NoArray]}
    \cup {[kind |-> "des", exc |-> "none", n |-> k] : k \in {0, 1, MaxDes}}

Unknown == [kind |-> "unknown", exc |-> "none", n |-> 0]

\* except Exception as e  (one handler around the whole loop body)
BuilderCatches_OnlyCv2(t) == t = "cv2.error"

BuilderCatches(t) == t \in ExceptionTypes

\* if des is not None and len(des) > 0
Storable_NotNone(des) == des # NoArray

Storable(des) == des # NoArray /\ des > 0

\* A cache an earlier build left at the path
PriorCaches == {<<Entry(p, 1)>> : p \in Paths}

AbsentFile == [kind |-> "absent", data |-> <<>>]

BuildIdle ==
    /\ image_paths = <<>>
    /\ i = 0
    /\ data_to_cache = <<>>
    /\ img = [p \in Paths |-> Unknown]
    /\ bpc = "idle"
    /\ cache_file = AbsentFile
    /\ processed = <<>>
    /\ writes = 0
    /\ prior = cache_file

BuildInit ==
    /\ image_paths \in UNION {[1..n -> Paths] : n \in 0..MaxImages}
    /\ i = 0
    /\ data_to_cache = <<>>
    /\ img = [p \in Paths |-> Unknown]
    /\ bpc = "start"
    /\ cache_file \in {AbsentFile} \cup {[kind |-> "cache", data |-> c] : c \in PriorCaches}
    /\ processed = <<>>
    /\ writes = 0
    /\ prior = cache_file

\* if not group2_paths:
Refuses_Never(paths) == FALSE

Refuses(paths) == paths = <<>>

\* data_to_cache = {}
FreshDict_Resume(f) == IF f.kind = "cache" THEN f.data ELSE <<>>

FreshDict(f) == <<>>

\* main.build_descriptor_cache / pipeline._build_descriptor_cache:
\* if not group2_paths: return False
BuildRefuse ==
    /\ bpc = "start"
    /\ Refuses(image_paths)
    /\ bpc' = "refused"
    /\ UNCHANGED <<image_paths, i, data_to_cache, img, cache_file, processed, writes, prior>>

\* cacher = DescriptorCacher(group2_paths); cacher.create_and_save_cache(...)
BuildStart ==
    /\ bpc = "start"
    /\ ~Refuses(image_paths)
    /\ bpc' = "loop"
    /\ data_to_cache' = FreshDict(cache_file)
    /\ UNCHANGED <<image_paths, i, img, cache_file, processed, writes, prior>>

\* One iteration of  for i, path in enumerate(self.image_paths), for an
\* image on which the vision primitives do o
ProcessImageWith(o) ==
    /\ bpc = "loop"
    /\ i < Len(image_paths)
    /\ LET path == image_paths[i + 1] IN
         /\ img[path] \in {Unknown, o}
         /\ img' = [img EXCEPT ![path] = o]
         /\ processed' = Append(processed, path)
         /\ IF o.kind = "raises" /\ ~BuilderCatches(o.exc)
            THEN /\ bpc' = "raised"
                 /\ UNCHANGED <<i, data_to_cache>>
            ELSE /\ bpc' = "loop"
                 /\ i' = i + 1
                 /\ data_to_cache' =
                      IF o.kind = "des" /\ Storable(o.n)
                      THEN DictSet(data_to_cache, Entry(path, o.n))
                      ELSE data_to_cache
    /\ UNCHANGED <<image_paths, cache_file, writes, prior>>

ProcessImage == \E o \in ImageOutcomes : ProcessImageWith(o)

\* with open(cache_path, 'wb') as f:   -- mode 'wb' truncates the file
OpenCache ==
    /\ bpc = "loop"
    /\ i = Len(image_paths)
    /\ cache_file' = [kind |-> "truncated", data |-> <<>>]
    /\ bpc' = "dump"
    /\ UNCHANGED <<image_paths, i, data_to_cache, img, processed, writes, prior>>

\* pickle.dump(data_to_cache, f) and the close at the end of the with block
DumpCache ==
    /\ bpc = "dump"
    /\ cache_file' = [kind |-> "cache", data |-> data_to_cache]
    /\ bpc' = "done"
    /\ writes' = writes + 1
    /\ UNCHANGED prior
    /\ UNCHANGED <<image_paths, i, data_to_cache, img, processed>>

\* The process dies (kill, power loss): memory is gone, the file stays
Crash ==
    /\ bpc \in {"loop", "dump"}
    /\ bpc' = "crashed"
    /\ i' = 0
    /\ data_to_cache' = <<>>
    /\ UNCHANGED <<image_paths, img, cache_file, processed, writes, prior>>

-----------------------------------------------------------------------------
(* core/searcher.py *)

\* Caches a build can leave behind: unique keys, every entry with at least
\* one descriptor and as many keypoints as descriptors; the keys in ascending
\* or in descending order
BuildableCaches ==
    {c \in UNION {[1..n -> {Entry(p, k) : p \in 1..MaxEntries, k \in {1, MaxDes}}]
                    : n \in 0..MaxEntries} :
        \/ \A j \in 1..Len(c) : c[j].path = j
        \/ \A j \in 1..Len(c) : c[j].path = Len(c) + 1 - j}

\* What decoding and describing the query image does
QuerySizes == {0, 1, RANSAC_MIN_INLIERS, MaxQueryDes}

QueryOutcomes ==
    {[kind |-> "imread_none", exc |-> "none", n |-> 0]}
    \cup {[kind |-> "raises", exc |-> t, n |-> 0] : t \in ExceptionTypes}
    \cup {[kind |-> "des", exc |-> "none", n |-> NoArray]}
    \cup {[kind |-> "des", exc |-> "none", n |-> k] : k \in QuerySizes}

\* len(kp1): ORB returns one keypoint per descriptor, none when des is None
KpLen(n) == IF n = NoArray THEN 0 ELSE n

\* except Exception as e  (around the query's decode/resize/detect)
QueryCatches(t) == t \in ExceptionTypes

\* the query passes  if query_img_gray is None  and
\* if des1 is None or len(kp1) == 0
QueryUsable_NoneOnly(q) == q.kind = "des" /\ q.n # NoArray

QueryUsable(q) == q.kind = "des" /\ ~(q.n = NoArray \/ KpLen(q.n) = 0)

\* a cv2.DMatch
DMatch(q, d) == [queryIdx |-> q, distance |-> d]

\* knnMatch(des1, des2, k=2) gives one row per query descriptor, holding the
\* min(2, len(des2)) nearest neighbours, nearest first.  The first k rows
\* have distances p, the others are equidistant.
KnnRows(nq, nd, k, p) ==
    [j \in 1..nq |->
        LET d == IF j <= k THEN p ELSE <<MaxDist, MaxDist>> IN
        IF nd >= 2 THEN <<DMatch(j, d[1]), DMatch(j, d[2])>>
                   ELSE <<DMatch(j, d[1])>>]

RowPairs == {<<m, MaxDist>> : m \in (MaxDist - 2)..MaxDist}

RunLens(nq) == {k \in {0, RANSAC_MIN_INLIERS - 1, RANSAC_MIN_INLIERS, nq} : k <= nq}

KnnResults(nq, nd) ==
    {[err |-> TRUE, rows |-> <<>>]}
    \cup {[err |-> FALSE, rows |-> KnnRows(nq, nd, k, p)] : k \in RunLens(nq), p \in RowPairs}

\* except cv2.error as e  (around knnMatch only)
KnnCatches(t) == t = "cv2.error"

\* for m, n in matches:  every row must unpack into exactly two neighbours
Unpackable(rows) == \A j \in 1..Len(rows) : Len(rows[j]) = 2

\* m.distance < 0.75 * n.distance
RatioTest_NonStrict(m, n) == 4 * m <= 3 * n

RatioTest(m, n) == 4 * m < 3 * n

\* good_matches: the m of every row that passes the ratio test, in row order
LoweFilter(rows) ==
    LET Passes(r) == RatioTest(r[1].distance, r[2].distance)
        good == SelectSeq(rows, Passes)
    IN  [t \in 1..Len(good) |-> good[t][1]]

\* if len(good_matches) < RANSAC_MIN_INLIERS: continue
EarlyReject_Inclusive(n_good) == n_good <= RANSAC_MIN_INLIERS

EarlyReject_CandidateMatches(n_good) == n_good < MIN_CANDIDATE_MATCHES

EarlyReject(n_good) == n_good < RANSAC_MIN_INLIERS

\* cv2.findHomography(src_pts, dst_pts, cv2.RANSAC, 5.0) on npts point pairs:
\* no mask, or a mask with one 0/1 element per pair; np.sum(mask) is recorded
HomographyMasks(npts) ==
    {NoArray} \cup {k \in {RANSAC_MIN_INLIERS - 1, RANSAC_MIN_INLIERS, npts} : k <= npts}

\* if num_inliers >= RANSAC_MIN_INLIERS and num_inliers > max_inliers
UpdatesBest_Ties(num_inliers, mx) ==
    num_inliers >= RANSAC_MIN_INLIERS /\ num_inliers >= mx

UpdatesBest(num_inliers, mx) ==
    num_inliers >= RANSAC_MIN_INLIERS /\ num_inliers > mx

\* The body of  for path, data in self.cached_data.items()  for one entry e,
\* given what knnMatch and findHomography return; early = step 5 is present
ScanBody(e, knn, mask, mx, best, early) ==
    LET keep == [raised |-> FALSE, max |-> mx, best |-> best, good |-> 0,
                 mask |-> NoArray, verified |-> FALSE, support |-> 0,
                 status |-> "skipped"]
    IN
    IF e.kp_data = 0 \/ e.des = NoArray THEN keep
    ELSE IF knn.err
    THEN IF KnnCatches("cv2.error")
         THEN [keep EXCEPT !.status = "knn_error"]
         ELSE [keep EXCEPT !.raised = TRUE, !.status = "raised"]
    ELSE IF ~Unpackable(knn.rows)
    THEN [keep EXCEPT !.raised = TRUE, !.status = "raised"]
    ELSE
      LET g == Len(LoweFilter(knn.rows)) IN
      IF early /\ EarlyReject(g)
      THEN [keep EXCEPT !.good = g, !.mask = mask, !.status = "rejected"]
      ELSE IF mask = NoArray
      THEN [keep EXCEPT !.good = g, !.verified = TRUE, !.status = "no_mask"]
      ELSE IF UpdatesBest(mask, mx)
      THEN [keep EXCEPT !.good = g, !.mask = mask, !.verified = TRUE,
                        !.support = mask, !.status = "counted",
                        !.max = mask, !.best = e.path]
      ELSE [keep EXCEPT !.good = g, !.mask = mask, !.verified = TRUE,
                        !.support = mask, !.status = "counted"]

SearchIdle ==
    /\ cached_data = <<>>
    /\ query = Unknown
    /\ spc = "off"
    /\ idx = 0
    /\ max_inliers = -1
    /\ best_candidate_path = None
    /\ result = None
    /\ evals = <<>>
    /\ ne_max = -1
    /\ ne_best = None

\* Searcher.__init__ has loaded a cache
SearchInit ==
    /\ cached_data \in BuildableCaches
    /\ query = Unknown
    /\ spc = "idle"
    /\ idx = 0
    /\ max_inliers = -1
    /\ best_candidate_path = None
    /\ result = None
    /\ evals = <<>>
    /\ ne_max = -1
    /\ ne_best = None

\* max_inliers = -1: a local of the call, whatever an earlier call left
InitialMax_Carried(prev) == prev

InitialMax(prev) == -1

\* find_match, step 1: the query's descriptors; then best/max are reset
StartFindWith(q) ==
    /\ spc = "idle"
    /\ query' = q
    /\ IF q.kind = "raises" /\ ~QueryCatches(q.exc)
       THEN spc' = "raised"
       ELSE IF q.kind = "raises" \/ ~QueryUsable(q)
       THEN spc' = "returned"
       ELSE spc' = "scan"
    /\ idx' = 0
    /\ max_inliers' = InitialMax(max_inliers)
    /\ best_candidate_path' = None
    /\ result' = None
    /\ evals' = <<>>
    /\ ne_max' = -1
    /\ ne_best' = None
    /\ UNCHANGED cached_data

StartFind == \E q \in QueryOutcomes : StartFindWith(q)

\* the for loop over self.cached_data.items() ends when the dict is
\* exhausted, whatever the best candidate is
ScanDone_FirstHit(k, n, best) == k = n \/ best # None

ScanDone(k, n, best) == k = n

\* the number of point pairs findHomography gets for a knnMatch result
PointPairs(knn) ==
    IF knn.err \/ ~Unpackable(knn.rows) THEN 0 ELSE Len(LoweFilter(knn.rows))

\* One iteration of the loop over the cache, given what knnMatch and
\* findHomography return for the entry
ScanEntryWith(knn, mask) ==
    /\ spc = "scan"
    /\ ~ScanDone(idx, Len(cached_data), best_candidate_path)
    /\ LET e == cached_data[idx + 1] IN
         LET r  == ScanBody(e, knn, mask, max_inliers, best_candidate_path, TRUE)
             ne == ScanBody(e, knn, mask, ne_max, ne_best, FALSE)
         IN
         /\ evals' = Append(evals, [path |-> e.path, status |-> r.status,
                                    good |-> r.good, mask |-> r.mask,
                                    verified |-> r.verified, support |-> r.support])
         /\ max_inliers' = r.max
         /\ best_candidate_path' = r.best
         /\ ne_max' = ne.max
         /\ ne_best' = ne.best
         /\ spc' = IF r.raised THEN "raised" ELSE "scan"
         /\ idx' = idx + 1
    /\ UNCHANGED <<cached_data, query, result>>

ScanEntry ==
    /\ spc = "scan"
    /\ idx < Len(cached_data)
    /\ \E knn \in KnnResults(KpLen(query.n), cached_data[idx + 1].des) :
       \E mask \in HomographyMasks(PointPairs(knn)) :
         ScanEntryWith(knn, mask)

\* return best_candidate_path
ReturnBest ==
    /\ spc = "scan"
    /\ ScanDone(idx, Len(cached_data), best_candidate_path)
    /\ result' = best_candidate_path
    /\ spc' = "returned"
    /\ UNCHANGED <<cached_data, query, idx, max_inliers, best_candidate_path,
                   evals, ne_max, ne_best>>

\* the caller's loop passes the next query to the same Searcher
NextQuery ==
    /\ spc = "returned"
    /\ spc' = "idle"
    /\ UNCHANGED <<cached_data, query, idx, max_inliers, best_candidate_path,
                   result, evals, ne_max, ne_best>>

-----------------------------------------------------------------------------
(* The ratio filter of find_match on an arbitrary knnMatch result *)

DistPairs == {p \in (0..MaxDist) \X (0..MaxDist) : p[1] <= p[2]}

RatioIdle ==
    /\ matches = <<>>
    /\ good_matches = <<>>
    /\ rpc = "off"

RatioInit ==
    /\ \E n \in 1..MaxRows : \E f \in [1..n -> DistPairs] :
         matches = [j \in 1..n |-> <<DMatch(j, f[j][1]), DMatch(j, f[j][2])>>]
    /\ good_matches = <<>>
    /\ rpc = "knn"

\* good_matches = [m for m, n in matches if m.distance < 0.75 * n.distance]
ApplyRatio ==
    /\ rpc = "knn"
    /\ good_matches' = LoweFilter(matches)
    /\ rpc' = "filtered"
    /\ UNCHANGED matches

-----------------------------------------------------------------------------
(* main.main and pipeline.run_pipeline: build, then search, then report *)

\* the identifier of the k-th query image (distinct from every reference path)
QueryPath(k) == 0 - k

\* the images one run's builder and searcher meet
PipeImageOutcomes ==
    {o \in ImageOutcomes : o.kind = "imread_none" \/ (o.kind = "des" /\ o.n \in {1, MaxDes})}

PipeQueryOutcomes ==
    {q \in QueryOutcomes : q.kind = "des" /\ q.n \in {0, MaxQueryDes}}

PipeKnnResults(nq, nd) ==
    {[err |-> FALSE, rows |-> KnnRows(nq, nd, k, <<MaxDist - 2, MaxDist>>)] : k \in {0, nq}}

PipeMasks(npts) == {k \in HomographyMasks(npts) : k # NoArray /\ k >= RANSAC_MIN_INLIERS}

\* pickle.load(f) succeeds on a completely written cache; open() raises on a
\* missing file and pickle.load on an empty one
Loadable_Any(f) == f.kind # "absent"

Loadable(f) == f.kind = "cache"

\* results_with_indices.sort(key=lambda item: item[0])  (stable)
InsertByIndex(t, x) ==
    LET k == Cardinality({j \in 1..Len(t) : t[j].index <= x.index})
    IN  SubSeq(t, 1, k) \o <<x>> \o SubSeq(t, k + 1, Len(t))

RECURSIVE SortByIndex(_)
SortByIndex(s) ==
    IF s = <<>> THEN <<>>
    ELSE InsertByIndex(SortByIndex(SubSeq(s, 1, Len(s) - 1)), s[Len(s)])

PipeIdle ==
    /\ ppc = "off"
    /\ mode = "main"
    /\ keep_unmatched_images = TRUE
    /\ nqueries = 0
    /\ qi = 0
    /\ handled = <<>>
    /\ results_with_indices = <<>>
    /\ final_list = <<>>
    /\ load_saw = "none"
    /\ other_pc = "off"


\* main() / run_pipeline(use_redis) is entered; keep_unmatched_images is read
\* from the configuration and group 1 holds nqueries images
PipeInit ==
    /\ ppc = "stage1"
    /\ mode \in {"main", "pipeline"}
    /\ keep_unmatched_images \in BOOLEAN
    /\ mode = "main" => keep_unmatched_images
    /\ nqueries \in 0..MaxQueries
    /\ qi = 0
    /\ handled = <<>>
    /\ results_with_indices = <<>>
    /\ final_list = <<>>
    /\ load_saw = "none"

\* the value build_descriptor_cache() returned, as the caller tests it
BuildSucceeded_Ignored(b) == b \in {"done", "refused"}

BuildSucceeded(b) == b = "done"

\* if not build_descriptor_cache(): return
StopAfterBuildFailure ==
    /\ ppc = "stage1"
    /\ bpc = "refused"
    /\ ~BuildSucceeded(bpc)
    /\ ppc' = "stopped"
    /\ UNCHANGED <<mode, handled, keep_unmatched_images, nqueries, qi, results_with_indices,
                   final_list, load_saw, other_pc>>

\* the build returned True; stage 2 starts.  pipeline.py first prepares the
\* output directory and returns [] when that fails.
EnterStage2 ==
    /\ ppc = "stage1"
    /\ BuildSucceeded(bpc)
    /\ \E dir_ok \in (IF mode = "pipeline" THEN BOOLEAN ELSE {TRUE}) :
         ppc' = IF dir_ok THEN "construct" ELSE "stage3"
    /\ UNCHANGED <<mode, handled, keep_unmatched_images, nqueries, qi, results_with_indices,
                   final_list, load_saw, other_pc>>

\* searcher = Searcher(DESCRIPTORS_CACHE_PATH) inside try/except Exception:
\* on a construction error the caller returns the empty list
LoadCache ==
    /\ ppc = "construct"
    /\ load_saw' = cache_file.kind
    /\ IF Loadable(cache_file)
       THEN /\ cached_data' = cache_file.data
            /\ spc' = "idle"
            /\ ppc' = "queries"
       ELSE /\ spc' = "construct_failed"
            /\ ppc' = "stage3"
            /\ UNCHANGED cached_data
    /\ UNCHANGED <<query, idx, max_inliers, best_candidate_path, result, evals,
                   ne_max, ne_best>>
    /\ UNCHANGED <<mode, handled, keep_unmatched_images, nqueries, qi, results_with_indices,
                   final_list, other_pc>>

\* found_match_path = searcher.find_match(img1_path) for the next query
PipeStartFind ==
    /\ ppc = "queries"
    /\ qi < nqueries
    /\ \E q \in PipeQueryOutcomes : StartFindWith(q)

PipeScanEntry ==
    /\ ppc = "queries"
    /\ spc = "scan"
    /\ idx < Len(cached_data)
    /\ \E knn \in PipeKnnResults(KpLen(query.n), cached_data[idx + 1].des) :
       \E mask \in (IF PointPairs(knn) >= RANSAC_MIN_INLIERS
                    THEN PipeMasks(PointPairs(knn)) ELSE {NoArray}) :
         ScanEntryWith(knn, mask)

\* pipeline.py: a file is copied for the position when a match was found or
\* unmatched images are kept; otherwise  continue
Keeps_Always(found, keep) == TRUE

Keeps(found, keep) == found # None \/ keep

\* what the caller's loop body does with the value find_match returned; the
\* locals of the finished call are gone
HandleResult ==
    /\ ppc = "queries"
    /\ spc = "returned"
    /\ LET original_index == qi
           img1_path == QueryPath(qi + 1)
           matched == [index |-> original_index, src |-> "match", path |-> result]
           original == [index |-> original_index, src |-> "original", path |-> img1_path]
       IN
       IF mode = "main"
       THEN /\ results_with_indices' =
                Append(results_with_indices, IF result # None THEN matched ELSE original)
            /\ handled' = Append(handled, [found |-> result, copy |-> "none"])
       ELSE IF ~Keeps(result, keep_unmatched_images)
       THEN /\ UNCHANGED results_with_indices
            /\ handled' = Append(handled, [found |-> result, copy |-> "none"])
       ELSE \E copy_ok \in BOOLEAN :
              /\ results_with_indices' =
                   IF copy_ok
                   THEN Append(results_with_indices, IF result # None THEN matched ELSE original)
                   ELSE results_with_indices
              /\ handled' = Append(handled, [found |-> result,
                                             copy |-> IF copy_ok THEN "ok" ELSE "failed"])
    /\ qi' = qi + 1
    /\ spc' = "idle"
    /\ query' = Unknown
    /\ idx' = 0
    /\ max_inliers' = -1
    /\ best_candidate_path' = None
    /\ result' = None
    /\ evals' = <<>>
    /\ ne_max' = -1
    /\ ne_best' = None
    /\ UNCHANGED cached_data
    /\ UNCHANGED <<ppc, mode, keep_unmatched_images, nqueries, final_list,
                   load_saw, other_pc>>

\* an exception find_match lets through ends the run: neither caller catches it
FindMatchRaises ==
    /\ ppc = "queries"
    /\ spc = "raised"
    /\ ppc' = "raised"
    /\ UNCHANGED <<mode, handled, keep_unmatched_images, nqueries, qi, results_with_indices,
                   final_list, load_saw, other_pc>>

\* the loop is over: pipeline.py sorts by index and keeps the paths, main.py
\* returns the list as appended
FinishQueries ==
    /\ ppc = "queries"
    /\ spc = "idle"
    /\ qi = nqueries
    /\ final_list' = IF mode = "pipeline" THEN SortByIndex(results_with_indices)
                                          ELSE results_with_indices
    /\ ppc' = "stage3"
    /\ UNCHANGED <<mode, handled, keep_unmatched_images, nqueries, qi, results_with_indices,
                   load_saw, other_pc>>

\* report_results(final_list) / _update_source_and_report(final_list, ...)
Report ==
    /\ ppc = "stage3"
    /\ ~use_redis
    /\ ppc' = "end"
    /\ UNCHANGED <<mode, handled, keep_unmatched_images, nqueries, qi, results_with_indices,
                   final_list, load_saw, other_pc>>

\* A second run of the pipeline (another chat) builds at the same time: its
\* create_and_save_cache opens the same DESCRIPTORS_CACHE_PATH and dumps its
\* own dictionary
OtherCaches == {<<Entry(p, MaxDes)>> : p \in Paths}

OtherOpen ==
    /\ other_pc = "ready"
    /\ cache_file' = [kind |-> "truncated", data |-> <<>>]
    /\ other_pc' = "dump"
    /\ UNCHANGED <<image_paths, i, data_to_cache, img, bpc, processed, writes, prior>>
    /\ UNCHANGED <<ppc, mode, handled, keep_unmatched_images, nqueries, qi,
                   results_with_indices, final_list, load_saw>>

OtherDump ==
    /\ other_pc = "dump"
    /\ \E c \in OtherCaches : cache_file' = [kind |-> "cache", data |-> c]
    /\ other_pc' = "done"
    /\ UNCHANGED <<image_paths, i, data_to_cache, img, bpc, processed, writes, prior>>
    /\ UNCHANGED <<ppc, mode, handled, keep_unmatched_images, nqueries, qi,
                   results_with_indices, final_list, load_saw>>

-----------------------------------------------------------------------------
(* One Searcher answering several calls, some on the same query image.  The  *)
(* vision primitives are functions of their inputs: what they return for a   *)
(* query image, or for a (query image, cache entry) pair, is fixed the first *)
(* time it is needed.                                                        *)

QueryImages == 1..NumQueryImages

NoAnswer == [answered |-> FALSE, result |-> None, inliers |-> -1]

NoVision == [seen |-> FALSE, knn |-> [err |-> FALSE, rows |-> <<>>], mask |-> NoArray]

RepeatIdle ==
    /\ cur_q = 0
    /\ qmemo = [q \in QueryImages |-> Unknown]
    /\ vision = [q \in QueryImages |-> [p \in 1..MaxEntries |-> NoVision]]
    /\ answered = [q \in QueryImages |-> NoAnswer]
    /\ calls = 0
    /\ loaded = <<>>


RepeatInit ==
    /\ SearchInit
    /\ Len(cached_data) <= MaxRepeatEntries
    /\ cur_q = 0
    /\ qmemo = [q \in QueryImages |-> Unknown]
    /\ vision = [q \in QueryImages |-> [p \in 1..MaxEntries |-> NoVision]]
    /\ answered = [q \in QueryImages |-> NoAnswer]
    /\ calls = 0
    /\ loaded = cached_data

\* searcher.find_match(path of query image q)
RepeatStartFind ==
    /\ calls < MaxCalls
    /\ \E q \in QueryImages : \E o \in PipeQueryOutcomes :
         /\ qmemo[q] \in {Unknown, o}
         /\ qmemo' = [qmemo EXCEPT ![q] = o]
         /\ cur_q' = q
         /\ StartFindWith(o)
    /\ calls' = calls + 1
    /\ UNCHANGED <<vision, answered, loaded>>

RepeatScanEntry ==
    /\ spc = "scan"
    /\ idx < Len(cached_data)
    /\ LET path == cached_data[idx + 1].path IN
       \E knn \in PipeKnnResults(KpLen(query.n), cached_data[idx + 1].des) :
       \E mask \in (IF PointPairs(knn) >= RANSAC_MIN_INLIERS
                    THEN PipeMasks(PointPairs(knn)) ELSE {NoArray}) :
         LET v == [seen |-> TRUE, knn |-> knn, mask |-> mask] IN
         /\ vision[cur_q][path] \in {NoVision, v}
         /\ vision' = [vision EXCEPT ![cur_q][path] = v]
         /\ ScanEntryWith(knn, mask)
    /\ UNCHANGED <<cur_q, qmemo, answered, calls, loaded>>

\* the call returned and the caller goes on; the first answer for each query
\* image is remembered
RepeatNextQuery ==
    /\ NextQuery
    /\ answered' = IF answered[cur_q].answered THEN answered
                   ELSE [answered EXCEPT ![cur_q] =
                           [answered |-> TRUE, result |-> result, inliers |-> max_inliers]]
    /\ UNCHANGED <<cur_q, qmemo, vision, calls, loaded>>

-----------------------------------------------------------------------------
(* A cache entry's way from ORB to the matcher: _keypoints_to_json, pickle,  *)
(* unpickle, _json_to_keypoints.  A cv2.KeyPoint holds pt, size, angle and   *)
(* response as 32-bit floats and octave, class_id as ints; Python floats are *)
(* 64-bit.  Values are scaled so that the 64-bit floats are the integers and *)
(* the 32-bit floats are the even integers.                                  *)

\* float32 -> Python float: every 32-bit float is a 64-bit float
Widen(x) == x

\* Python float -> float32: rounds to the nearest representable value
Narrow(d) == d - (d % 2)

\* cv2.KeyPoint(x, y, size, angle, response, octave, class_id)
KeyPoint(x, y, size, angle, response, octave, class_id) ==
    [pt |-> <<Narrow(x), Narrow(y)>>, size |-> Narrow(size), angle |-> Narrow(angle),
     response |-> Narrow(response), octave |-> octave, class_id |-> class_id]

\* the dictionary _keypoints_to_json makes of one keypoint
KpDict(kp) ==
    [pt |-> <<Widen(kp.pt[1]), Widen(kp.pt[2])>>, size |-> Widen(kp.size),
     angle |-> Widen(kp.angle), response |-> Widen(kp.response),
     octave |-> kp.octave, class_id |-> kp.class_id]

keypoints_to_json(kps) == [j \in 1..Len(kps) |-> KpDict(kps[j])]

json_to_keypoints_Swapped(kpd) ==
    [j \in 1..Len(kpd) |->
        KeyPoint(kpd[j].pt[1], kpd[j].pt[2], kpd[j].angle, kpd[j].size,
                 kpd[j].response, kpd[j].octave, kpd[j].class_id)]

json_to_keypoints(kpd) ==
    [j \in 1..Len(kpd) |->
        KeyPoint(kpd[j].pt[1], kpd[j].pt[2], kpd[j].size, kpd[j].angle,
                 kpd[j].response, kpd[j].octave, kpd[j].class_id)]

\* pickle.dump of {'kp_data': ..., 'des': ...}: the number of keypoints, then
\* seven values per keypoint, then the descriptor rows
RECURSIVE Flatten(_)
Flatten(kpd) ==
    IF kpd = <<>> THEN <<>>
    ELSE LET p == kpd[1] IN
         <<p.pt[1], p.pt[2], p.size, p.angle, p.response, p.octave, p.class_id>>
            \o Flatten(Tail(kpd))

Pickle(e) == <<Len(e.kp_data)>> \o Flatten(e.kp_data) \o e.des

\* pickle.load
Unpickle(b) ==
    LET n == b[1]
        At(j, f) == b[1 + 7 * (j - 1) + f]
    IN  [kp_data |-> [j \in 1..n |->
                        [pt |-> <<At(j, 1), At(j, 2)>>, size |-> At(j, 3),
                         angle |-> At(j, 4), response |-> At(j, 5),
                         octave |-> At(j, 6), class_id |-> At(j, 7)]],
         des |-> SubSeq(b, 2 + 7 * n, Len(b))]

\* keypoints ORB reports: coordinates, size and angle vary, class_id is -1
KpSamples ==
    {KeyPoint(2 * x, 0, 2 * s, 2 * a, 2 * r, o, -1) :
        x \in {0, MaxField}, s \in {1}, a \in {0, MaxField}, r \in {0}, o \in {0, 1}}

\* descriptor rows, each stood for by one byte
DesRows == {0, 255}

NoEntry == [kp_data |-> <<>>, des |-> <<>>]

TripIdle ==
    /\ keypoints = <<>>
    /\ orb_des = <<>>
    /\ kp_data = <<>>
    /\ stored = <<>>
    /\ data = NoEntry
    /\ kp2 = <<>>
    /\ des2 = <<>>
    /\ tpc = "off"


\* kp, des = self.orb.detectAndCompute(img, None), with len(des) > 0
TripInit ==
    /\ \E n \in 1..MaxKp :
         /\ keypoints \in [1..n -> KpSamples]
         /\ orb_des \in [1..n -> DesRows]
    /\ kp_data = <<>>
    /\ stored = <<>>
    /\ data = NoEntry
    /\ kp2 = <<>>
    /\ des2 = <<>>
    /\ tpc = "detected"

\* data_to_cache[path] = {'kp_data': _keypoints_to_json(kp), 'des': des}
Serialize ==
    /\ tpc = "detected"
    /\ kp_data' = keypoints_to_json(keypoints)
    /\ tpc' = "entry"
    /\ UNCHANGED <<keypoints, orb_des, stored, data, kp2, des2>>

\* pickle.dump(data_to_cache, f)
Persist ==
    /\ tpc = "entry"
    /\ stored' = Pickle([kp_data |-> kp_data, des |-> orb_des])
    /\ tpc' = "stored"
    /\ UNCHANGED <<keypoints, orb_des, kp_data, data, kp2, des2>>

\* self.cached_data = pickle.load(f)
Load ==
    /\ tpc = "stored"
    /\ data' = Unpickle(stored)
    /\ tpc' = "loaded"
    /\ UNCHANGED <<keypoints, orb_des, kp_data, stored, kp2, des2>>

\* kp2 = _json_to_keypoints(data['kp_data']); des2 = data['des']
Rebuild ==
    /\ tpc = "loaded"
    /\ kp2' = json_to_keypoints(data.kp_data)
    /\ des2' = data.des
    /\ tpc' = "rebuilt"
    /\ UNCHANGED <<keypoints, orb_des, kp_data, stored, data>>

-----------------------------------------------------------------------------
(* image_link_manager.py: a CSV with one column of image links.  A string is *)
(* a sequence of one-character strings, a CSV content a sequence of lines    *)
(* (the line terminator is '\n' and no field holds a line break or a quote   *)
(* character).                                                              *)

CSV_IMAGE_COLUMN == <<"L">>
CSV_CELL_DELIMITER == "|"
CSV_IMAGE_DELIMITER == ";"
QuoteChar == "\""

\* a Python value held in a row dictionary: a str or a list of str
Str(s) == [type |-> "str", str |-> s, items |-> <<>>]

List(l) == [type |-> "list", str |-> <<>>, items |-> l]

\* str.strip()
RECURSIVE LStrip(_)
LStrip(s) == IF s # <<>> /\ s[1] = " " THEN LStrip(Tail(s)) ELSE s

RECURSIVE RStrip(_)
RStrip(s) == IF s # <<>> /\ s[Len(s)] = " " THEN RStrip(SubSeq(s, 1, Len(s) - 1)) ELSE s

Strip(s) == RStrip(LStrip(s))

\* str.split(c): the pieces between the occurrences of c, at least one piece
RECURSIVE Split(_, _)
Split(s, c) ==
    LET at == {j \in 1..Len(s) : s[j] = c} IN
    IF at = {} THEN <<s>>
    ELSE LET k == CHOOSE j \in at : \A m \in at : j <= m
         IN  <<SubSeq(s, 1, k - 1)>> \o Split(SubSeq(s, k + 1, Len(s)), c)

\* c.join(l)
RECURSIVE Join(_, _)
Join(l, c) ==
    IF l = <<>> THEN <<>>
    ELSE IF Len(l) = 1 THEN l[1]
    ELSE l[1] \o <<c>> \o Join(Tail(l), c)

\* [link.strip() for link in value.split(image_delimiter) if link.strip()]
ParseLinks(value) ==
    LET parts == Split(value, CSV_IMAGE_DELIMITER)
        NonEmpty(x) == x # <<>>
    IN  SelectSeq([j \in 1..Len(parts) |-> Strip(parts[j])], NonEmpty)

\* csv.writer with QUOTE_MINIMAL: a field holding the delimiter is quoted
WriteField(s) ==
    IF \E j \in 1..Len(s) : s[j] \in {CSV_CELL_DELIMITER, QuoteChar}
    THEN <<QuoteChar>> \o s \o <<QuoteChar>>
    ELSE s

WriteLine(cells) == Join([j \in 1..Len(cells) |-> WriteField(cells[j])], CSV_CELL_DELIMITER)

\* csv.reader on one line: fields end at delimiters outside quotes; an empty
\* line has no field
RECURSIVE ScanLine(_, _, _, _, _)
ScanLine(line, pos, cur, cells, quoted) ==
    IF pos > Len(line) THEN Append(cells, cur)
    ELSE IF line[pos] = QuoteChar THEN ScanLine(line, pos + 1, cur, cells, ~quoted)
    ELSE IF line[pos] = CSV_CELL_DELIMITER /\ ~quoted
         THEN ScanLine(line, pos + 1, <<>>, Append(cells, cur), FALSE)
    ELSE ScanLine(line, pos + 1, Append(cur, line[pos]), cells, quoted)

ReadLine(line) == IF line = <<>> THEN <<>> ELSE ScanLine(line, 1, <<>>, <<>>, FALSE)

\* from_file / from_redis returned None
NoManager == [ok |-> FALSE, headers |-> <<>>, rows |-> <<>>]

\* the dictionary parsed from the values of one line: a repeated header keeps
\* the value of its last column
ParseRow(headers, row_values) ==
    [h \in Range(headers) |->
        LET c == CHOOSE j \in 1..Len(headers) :
                    headers[j] = h /\ \A m \in (j + 1)..Len(headers) : headers[m] # h
            value == IF c <= Len(row_values) THEN row_values[c] ELSE <<>>
        IN  IF h = CSV_IMAGE_COLUMN /\ value # <<>>
            THEN List(ParseLinks(value))
            ELSE Str(value)]

\* the body of from_file / from_redis: next(reader) raises on an empty
\* content and the factory returns None
ParseCsv(content) ==
    IF content = <<>> THEN NoManager
    ELSE LET headers == ReadLine(content[1]) IN
         [ok |-> TRUE, headers |-> headers,
          rows |-> [r \in 1..(Len(content) - 1) |->
                       ParseRow(headers, ReadLine(content[r + 1]))]]

\* if 0 <= row_index < len(self.rows)
InRange(m, x) == 0 <= x /\ x < Len(m.rows)

\* self.rows[row_index].get(self.image_column_name, [])
get_image_links(m, x) ==
    IF InRange(m, x)
    THEN IF CSV_IMAGE_COLUMN \in DOMAIN m.rows[x + 1]
         THEN m.rows[x + 1][CSV_IMAGE_COLUMN]
         ELSE List(<<>>)
    ELSE List(<<>>)

\* self.rows[row_index][self.image_column_name] = new_links
set_image_links(m, x, links) ==
    IF InRange(m, x) /\ CSV_IMAGE_COLUMN \in Range(m.headers)
    THEN [m EXCEPT !.rows[x + 1][CSV_IMAGE_COLUMN] = List(links)]
    ELSE m

\* the content save_changes_and_get_content builds: the header line, then one
\* line per row with a list joined by the image delimiter
RowCells(m, row) ==
    [j \in 1..Len(m.headers) |->
        LET v == row[m.headers[j]] IN
        IF v.type = "list" THEN Join(v.items, CSV_IMAGE_DELIMITER) ELSE v.str]

SaveContent(m) ==
    <<WriteLine(m.headers)>> \o [r \in 1..Len(m.rows) |-> WriteLine(RowCells(m, m.rows[r]))]

\* links handed to set_image_links: free of both delimiters, one of them padded
Links == {<<"a">>, <<"b">>, <<" ", "a">>}

LinkLists == UNION {[1..n -> Links] : n \in 0..MaxLinks}

\* the cells of the CSV a manager is made from
ImageCells == {<<>>, <<"a">>, <<" ", "a", ";", " ", "b">>}

OtherCells == {<<>>, <<"a", "|", "b">>}

HeaderLines == {<<<<"n">>, CSV_IMAGE_COLUMN>>, <<CSV_IMAGE_COLUMN, <<"n">>>>, <<<<"n">>, <<"m">>>>}

CellsFor(h) == IF h = CSV_IMAGE_COLUMN THEN ImageCells ELSE OtherCells

CsvContents ==
    UNION {{<<WriteLine(hs)>> \o [r \in 1..n |-> WriteLine(<<f[r][1], f[r][2]>>)] :
              f \in [1..n -> CellsFor(hs[1]) \X CellsFor(hs[2])]}
           : hs \in HeaderLines, n \in 0..MaxCsvRows}

NoFile == <<>>

CsvIdle ==
    /\ use_redis = FALSE
    /\ redis_csv = NoFile
    /\ disk_csv = NoFile
    /\ mgr = NoManager
    /\ row_index = 0
    /\ new_links = <<>>
    /\ mgr2 = NoManager
    /\ got = List(<<>>)
    /\ cpc = "off"

LaterIdle == PipeIdle /\ RepeatIdle /\ TripIdle /\ CsvIdle

\* a CSV file is there to be edited
CsvInit ==
    /\ use_redis = FALSE
    /\ redis_csv = NoFile
    /\ disk_csv \in CsvContents
    /\ mgr = NoManager
    /\ row_index = 0
    /\ new_links = <<>>
    /\ mgr2 = NoManager
    /\ got = List(<<>>)
    /\ cpc = "file"

\* manager = ImageLinkManager.from_file(csv_path)
FromFile ==
    /\ cpc = "file"
    /\ mgr' = ParseCsv(disk_csv)
    /\ cpc' = "loaded"
    /\ UNCHANGED <<use_redis, redis_csv, disk_csv, row_index, new_links, mgr2, got>>

\* manager.set_image_links(row_index, new_links)
SetImageLinks ==
    /\ cpc = "loaded"
    /\ \E x \in (0 - 1)..MaxCsvRows : \E links \in LinkLists :
         /\ row_index' = x
         /\ new_links' = links
         /\ mgr' = set_image_links(mgr, x, links)
    /\ cpc' = "set"
    /\ UNCHANGED <<use_redis, redis_csv, disk_csv, mgr2, got>>

\* manager.save_changes_and_get_content(): the content goes to output_path
SaveChanges ==
    /\ cpc = "set"
    /\ disk_csv' = SaveContent(mgr)
    /\ cpc' = "saved"
    /\ UNCHANGED <<use_redis, redis_csv, mgr, row_index, new_links, mgr2, got>>

\* ImageLinkManager.from_file(csv_path) on the saved file
Reparse ==
    /\ cpc = "saved"
    /\ mgr2' = ParseCsv(disk_csv)
    /\ cpc' = "reparsed"
    /\ UNCHANGED <<use_redis, redis_csv, disk_csv, mgr, row_index, new_links, got>>

\* manager.get_image_links(row_index)
GetImageLinks ==
    /\ cpc = "reparsed"
    /\ got' = get_image_links(mgr2, row_index)
    /\ cpc' = "got"
    /\ UNCHANGED <<use_redis, redis_csv, disk_csv, mgr, row_index, new_links, mgr2>>

-----------------------------------------------------------------------------
(* Stage 3 of run_pipeline in Redis mode: the final list becomes the image   *)
(* links of a row of the CSV held in Redis.                                  *)

\* the row of the manager _update_source_and_report hands to set_image_links
UpdatedRow_Last(m) == Len(m.rows) - 1

UpdatedRow(m) == 0

Digits == <<"0", "1", "2", "3", "4", "5", "6", "7", "8", "9">>

\* destination_path: the output directory and f"{original_index}{extension}"
DestinationPath(original_index) == <<"o", Digits[original_index + 1]>>

\* the list of new paths stage 2 returned, as strings
FinalLinks(fl) == [j \in 1..Len(fl) |-> DestinationPath(fl[j].index)]

\* ImageLinkManager.from_redis: None without the CSV or the output path,
\* otherwise the same parse as from_file
from_redis(csv_data, path_ok) ==
    IF csv_data = NoFile \/ ~path_ok THEN NoManager ELSE ParseCsv(csv_data)

\* the values of '<chat>:csv:raw' a run may find: a CSV without the image
\* column, and CSVs with it that have no row, or a first row with two links
\* and later rows with two links written with blanks
FirstRowCell == <<"a", ";", "b">>

LaterRowCell == <<" ", "a", ";", " ", "b">>

RedisCsvContents ==
    {<<WriteLine(<<<<"n">>, <<"m">>>>), WriteLine(<<<<"a">>, <<"b">>>>)>>}
    \cup {<<WriteLine(<<<<"n">>, CSV_IMAGE_COLUMN>>)>>
             \o [r \in 1..n |->
                    WriteLine(<<<<"a">>, IF r = 1 THEN FirstRowCell ELSE LaterRowCell>>)] :
          n \in 0..MaxRedisRows}

\* run_pipeline(use_redis) is entered with the CSV in Redis
RedisInit ==
    /\ use_redis \in BOOLEAN
    /\ redis_csv \in (IF use_redis THEN RedisCsvContents ELSE {NoFile})
    /\ disk_csv = NoFile
    /\ mgr = NoManager
    /\ row_index = 0
    /\ new_links = <<>>
    /\ mgr2 = NoManager
    /\ got = List(<<>>)
    /\ cpc = "off"

\* _update_source_and_report(final_list, True): the whole of the Redis
\* branch.  cpc records which branch was taken.  A failed save is an open()
\* that raised: the file is as it was.
RedisReport ==
    /\ ppc = "stage3"
    /\ use_redis
    /\ \E client_ok \in BOOLEAN, path_ok \in BOOLEAN, save_ok \in BOOLEAN :
         LET manager == from_redis(redis_csv, path_ok)
             updated == set_image_links(manager, UpdatedRow(manager), FinalLinks(final_list))
             updated_content == SaveContent(updated)
         IN
         IF ~client_ok
         THEN /\ cpc' = "no_client"
              /\ UNCHANGED <<redis_csv, disk_csv, mgr>>
         ELSE IF ~manager.ok
         THEN /\ cpc' = "no_manager"
              /\ UNCHANGED <<redis_csv, disk_csv, mgr>>
         ELSE IF manager.rows = <<>>
         THEN /\ cpc' = "no_rows"
              /\ mgr' = manager
              /\ UNCHANGED <<redis_csv, disk_csv>>
         ELSE IF ~save_ok
         THEN /\ cpc' = "save_failed"
              /\ mgr' = updated
              /\ UNCHANGED <<redis_csv, disk_csv>>
         ELSE /\ cpc' = "updated"
              /\ mgr' = updated
              /\ disk_csv' = updated_content
              /\ redis_csv' = updated_content
    /\ ppc' = "end"
    /\ UNCHANGED <<use_redis, row_index, new_links, mgr2, got>>
    /\ UNCHANGED <<mode, handled, keep_unmatched_images, nqueries, qi, results_with_indices,
                   final_list, load_saw, other_pc>>

-----------------------------------------------------------------------------
(* Specifications *)

\* the builder alone
InitBuild == BuildInit /\ SearchIdle /\ RatioIdle /\ LaterIdle

NextBuild ==
    \/ BuildRefuse /\ UNCHANGED <<searchVars, ratioVars, laterVars>>
    \/ BuildStart /\ UNCHANGED <<searchVars, ratioVars, laterVars>>
    \/ ProcessImage /\ UNCHANGED <<searchVars, ratioVars, laterVars>>
    \/ OpenCache /\ UNCHANGED <<searchVars, ratioVars, laterVars>>
    \/ DumpCache /\ UNCHANGED <<searchVars, ratioVars, laterVars>>
    \/ Crash /\ UNCHANGED <<searchVars, ratioVars, laterVars>>

SpecBuild == InitBuild /\ [][NextBuild]_vars

\* a Searcher answering queries from a loaded cache
InitSearch == BuildIdle /\ SearchInit /\ RatioIdle /\ LaterIdle

NextSearch ==
    \/ StartFind /\ UNCHANGED <<buildVars, ratioVars, laterVars>>
    \/ ScanEntry /\ UNCHANGED <<buildVars, ratioVars, laterVars>>
    \/ ReturnBest /\ UNCHANGED <<buildVars, ratioVars, laterVars>>
    \/ NextQuery /\ UNCHANGED <<buildVars, ratioVars, laterVars>>

SpecSearch == InitSearch /\ [][NextSearch]_vars

\* the ratio filter alone
InitRatio == BuildIdle /\ SearchIdle /\ RatioInit /\ LaterIdle

NextRatio == ApplyRatio /\ UNCHANGED <<buildVars, searchVars, laterVars>>

SpecRatio == InitRatio /\ [][NextRatio]_vars

\* one run of main.main / pipeline.run_pipeline.  Reference paths are opaque
\* identifiers, so the input sequences are taken up to renaming: a path
\* first occurs only after every smaller path has occurred.
FirstOccurrencesAscend(s) ==
    \A j \in 1..Len(s) : s[j] <= 1 + Cardinality({s[k] : k \in 1..(j - 1)})

InitPipeline ==
    /\ BuildInit /\ SearchIdle /\ RatioIdle /\ PipeInit /\ RepeatIdle /\ TripIdle /\ CsvIdle
    /\ FirstOccurrencesAscend(image_paths)
    /\ cache_file.kind = "cache" => cache_file.data[1].path = 1
    /\ other_pc = "off"

RunSteps ==
    \/ BuildRefuse /\ UNCHANGED <<searchVars, ratioVars, laterVars>>
    \/ BuildStart /\ UNCHANGED <<searchVars, ratioVars, laterVars>>
    \/ (\E o \in PipeImageOutcomes : ProcessImageWith(o))
          /\ UNCHANGED <<searchVars, ratioVars, laterVars>>
    \/ OpenCache /\ UNCHANGED <<searchVars, ratioVars, laterVars>>
    \/ DumpCache /\ UNCHANGED <<searchVars, ratioVars, laterVars>>
    \/ StopAfterBuildFailure /\ UNCHANGED <<buildVars, searchVars, sideVars>>
    \/ EnterStage2 /\ UNCHANGED <<buildVars, searchVars, sideVars>>
    \/ LoadCache /\ UNCHANGED <<buildVars, sideVars>>
    \/ PipeStartFind /\ UNCHANGED <<buildVars, ratioVars, laterVars>>
    \/ PipeScanEntry /\ UNCHANGED <<buildVars, ratioVars, laterVars>>
    \/ ReturnBest /\ ppc = "queries" /\ UNCHANGED <<buildVars, ratioVars, laterVars>>
    \/ HandleResult /\ UNCHANGED <<buildVars, sideVars>>
    \/ FindMatchRaises /\ UNCHANGED <<buildVars, searchVars, sideVars>>
    \/ FinishQueries /\ UNCHANGED <<buildVars, searchVars, sideVars>>
    \/ Report /\ UNCHANGED <<buildVars, searchVars, sideVars>>

NextPipeline == RunSteps

SpecPipeline == InitPipeline /\ [][NextPipeline]_vars

\* a run of main.main on a short input, with no file at the cache path.  The
\* run is one synchronous thread: it goes on as long as it has a step.
InitLoops ==
    /\ InitPipeline
    /\ mode = "main"
    /\ Len(image_paths) <= MaxLoopImages
    /\ nqueries <= MaxLoopQueries
    /\ cache_file = AbsentFile

FairLoops == InitLoops /\ [][NextPipeline]_vars /\ WF_vars(NextPipeline)

\* the same run while a second run builds into the same cache path
InitConcurrent ==
    /\ BuildInit /\ SearchIdle /\ RatioIdle /\ PipeInit /\ RepeatIdle /\ TripIdle /\ CsvIdle
    /\ Len(image_paths) <= MaxConcImages
    /\ nqueries <= MaxConcQueries
    /\ other_pc = "ready"

NextConcurrent ==
    \/ RunSteps
    \/ OtherOpen /\ UNCHANGED <<searchVars, sideVars>>
    \/ OtherDump /\ UNCHANGED <<searchVars, sideVars>>

SpecConcurrent == InitConcurrent /\ [][NextConcurrent]_vars

\* one Searcher, repeated queries
InitRepeat == BuildIdle /\ RepeatInit /\ RatioIdle /\ PipeIdle /\ TripIdle /\ CsvIdle

NextRepeat ==
    \/ RepeatStartFind /\ UNCHANGED <<buildVars, ratioVars, pipeVars, tripVars, csvVars>>
    \/ RepeatScanEntry /\ UNCHANGED <<buildVars, ratioVars, pipeVars, tripVars, csvVars>>
    \/ ReturnBest /\ UNCHANGED <<buildVars, ratioVars, pipeVars, repeatVars, tripVars, csvVars>>
    \/ RepeatNextQuery /\ UNCHANGED <<buildVars, ratioVars, pipeVars, tripVars, csvVars>>

SpecRepeat == InitRepeat /\ [][NextRepeat]_vars

\* one cache entry through serialisation and back
InitRoundTrip ==
    BuildIdle /\ SearchIdle /\ RatioIdle /\ PipeIdle /\ RepeatIdle /\ TripInit /\ CsvIdle

NextRoundTrip ==
    \/ Serialize /\ UNCHANGED <<buildVars, searchVars, ratioVars, pipeVars, repeatVars, csvVars>>
    \/ Persist /\ UNCHANGED <<buildVars, searchVars, ratioVars, pipeVars, repeatVars, csvVars>>
    \/ Load /\ UNCHANGED <<buildVars, searchVars, ratioVars, pipeVars, repeatVars, csvVars>>
    \/ Rebuild /\ UNCHANGED <<buildVars, searchVars, ratioVars, pipeVars, repeatVars, csvVars>>

SpecRoundTrip == InitRoundTrip /\ [][NextRoundTrip]_vars

\* a manager made from a CSV file, one set_image_links, save, parse again
InitCsv ==
    BuildIdle /\ SearchIdle /\ RatioIdle /\ PipeIdle /\ RepeatIdle /\ TripIdle /\ CsvInit

NextCsv ==
    \/ FromFile /\ UNCHANGED <<buildVars, searchVars, ratioVars, pipeVars, repeatVars, tripVars>>
    \/ SetImageLinks /\ UNCHANGED <<buildVars, searchVars, ratioVars, pipeVars, repeatVars, tripVars>>
    \/ SaveChanges /\ UNCHANGED <<buildVars, searchVars, ratioVars, pipeVars, repeatVars, tripVars>>
    \/ Reparse /\ UNCHANGED <<buildVars, searchVars, ratioVars, pipeVars, repeatVars, tripVars>>
    \/ GetImageLinks /\ UNCHANGED <<buildVars, searchVars, ratioVars, pipeVars, repeatVars, tripVars>>

SpecCsv == InitCsv /\ [][NextCsv]_vars

\* a run of pipeline.run_pipeline, in Redis mode or not, while a second run
\* builds into the same cache path
InitRedis ==
    /\ BuildInit /\ SearchIdle /\ RatioIdle /\ PipeInit /\ RepeatIdle /\ TripIdle /\ RedisInit
    /\ mode = "pipeline"
    /\ cache_file = AbsentFile
    /\ FirstOccurrencesAscend(image_paths)
    /\ Len(image_paths) <= MaxConcImages
    /\ nqueries <= MaxConcQueries
    /\ other_pc = "ready"

NextRedis ==
    \/ NextConcurrent
    \/ RedisReport /\ UNCHANGED <<buildVars, searchVars, ratioVars, repeatVars, tripVars>>

SpecRedis == InitRedis /\ [][NextRedis]_vars

-----------------------------------------------------------------------------
(* Properties of Searcher.find_match, under SpecSearch *)

\* the entries scanned so far whose counted inliers reach the threshold
Qualifying == {j \in 1..Len(evals) : evals[j].support >= RANSAC_MIN_INLIERS}

\* the earliest of the qualifying entries with the largest inlier count
FirstBest ==
    CHOOSE j \in Qualifying :
        \A k \in Qualifying :
            \/ evals[k].support < evals[j].support
            \/ evals[k].support = evals[j].support /\ j <= k

QueryHasNoFeatures ==
    \/ query.kind = "imread_none"
    \/ query.kind = "raises"
    \/ query.kind = "des" /\ (query.n = NoArray \/ query.n = 0)

\* C1: when find_match returns after the scan and some entry reached
\* RANSAC_MIN_INLIERS inliers, the identifier returned is that of the entry
\* with the largest inlier count among those, the earliest one on a tie
\* (and during the scan the current best is that entry of those seen so far).
C1_BestOfSelection ==
    /\ (spc \in {"scan", "returned"} /\ Qualifying # {}) =>
          /\ best_candidate_path = evals[FirstBest].path
          /\ max_inliers = evals[FirstBest].support
    /\ (spc = "returned" /\ Qualifying # {}) => result = evals[FirstBest].path

\* three entries with inlier counts below the threshold, above it, and the
\* same again: the second one is returned
C1_Witness ==
    /\ spc = "returned"
    /\ Len(evals) = 3
    /\ evals[1].verified /\ evals[1].support = RANSAC_MIN_INLIERS - 1
    /\ evals[2].support > RANSAC_MIN_INLIERS
    /\ evals[3].support = evals[2].support
    /\ result = evals[2].path

\* C2: once find_match has ended, it has returned None exactly when the
\* query was unusable or no entry reached RANSAC_MIN_INLIERS inliers, and an
\* identifier it returned is a key of the cache with at least
\* RANSAC_MIN_INLIERS inliers.
C2_NoMatchIff ==
    spc \in {"returned", "raised"} =>
        /\ (spc = "returned" /\ result = None)
              <=> (QueryHasNoFeatures \/ Qualifying = {})
        /\ (spc = "returned" /\ result # None) =>
              /\ HasKey(cached_data, result)
              /\ \E j \in Qualifying : evals[j].path = result

\* C3: no error of one cache entry escapes find_match, and a call that got
\* past the query has evaluated every entry when it ends.
C3_NoEscape ==
    /\ spc # "raised"
    /\ (spc = "returned" /\ ~QueryHasNoFeatures) => Len(evals) = Len(cached_data)

C9_EarlyRejectionPure ==
    /\ best_candidate_path = ne_best
    /\ max_inliers = ne_max
    /\ spc = "returned" => result = ne_best

\* a scan that rejected an entry early and still returned a match
C9_Witness ==
    /\ spc = "returned"
    /\ result # None
    /\ \E j \in 1..Len(evals) :
         evals[j].status = "rejected" /\ evals[j].good = RANSAC_MIN_INLIERS - 1

\* C10: for a query that cannot be decoded or yields no descriptors,
\* find_match returns None, raises nothing and scans no cache entry.
C10_NoDescriptorQuery ==
    (spc # "idle" /\ QueryHasNoFeatures) =>
        /\ spc = "returned"
        /\ result = None
        /\ evals = <<>>
        /\ idx = 0

\* a query with an empty descriptor array against a non-empty cache
C10_Witness ==
    /\ spc = "returned"
    /\ query.kind = "des"
    /\ query.n = 0
    /\ cached_data # <<>>

-----------------------------------------------------------------------------
(* Properties of the ratio filter, under SpecRatio *)

Counted(j) == \E t \in 1..Len(good_matches) : good_matches[t] = matches[j][1]

\* C7: the best neighbour of a query descriptor is among the good matches
\* if and only if best_distance < 0.75 * second_best_distance; a descriptor
\* with best_distance >= 0.75 * second_best_distance, equality included, is
\* not counted, and no descriptor is counted twice.
C7_RatioTest ==
    rpc = "filtered" =>
        /\ \A j \in 1..Len(matches) :
             LET best == matches[j][1].distance
                 second == matches[j][2].distance
             IN  /\ 4 * best < 3 * second => Counted(j)
                 /\ 4 * best >= 3 * second => ~Counted(j)
        /\ Len(good_matches) = Cardinality({j \in 1..Len(matches) : Counted(j)})

\* one row at exactly best = 0.75 * second (not counted), one row below it
C7_Witness ==
    /\ rpc = "filtered"
    /\ \E j, k \in 1..Len(matches) :
         /\ matches[j][1].distance > 0
         /\ 4 * matches[j][1].distance = 3 * matches[j][2].distance
         /\ ~Counted(j)
         /\ Counted(k)

-----------------------------------------------------------------------------
(* Properties of DescriptorCacher.create_and_save_cache, under SpecBuild *)

Succeeded(o) == o.kind = "des" /\ o.n >= 1

\* C4: no exception of one image leaves the loop; every image of the input
\* has been processed when the cache is written; the written cache holds an
\* entry for exactly the images that decoded and gave descriptors.
C4_PartialFailure ==
    /\ bpc # "raised"
    /\ bpc \in {"dump", "done"} =>
          /\ i = Len(image_paths)
          /\ \A p \in Range(image_paths) : img[p] # Unknown
    /\ bpc = "done" =>
          /\ cache_file.kind = "cache"
          /\ \A p \in Paths :
               HasKey(cache_file.data, p)
                  <=> (p \in Range(image_paths) /\ Succeeded(img[p]))

\* the first image raised, a later one succeeded and is in the written cache
C4_Witness ==
    /\ bpc = "done"
    /\ Len(image_paths) >= 2
    /\ img[image_paths[1]].kind = "raises"
    /\ Succeeded(img[image_paths[2]])
    /\ HasKey(cache_file.data, image_paths[2])

\* C5: the artifact at the cache path is at every moment absent or a
\* complete, loadable cache.
C5_AtomicArtifact == cache_file.kind \in {"absent", "cache"}

\* C6: no entry with an empty descriptor sequence is in the dict or in the
\* file, and an image that did not decode or gave no descriptors has no key
\* in the written cache.
C6_NoEmptyEntry ==
    /\ \A j \in 1..Len(data_to_cache) : data_to_cache[j].des >= 1
    /\ cache_file.kind = "cache" =>
          \A j \in 1..Len(cache_file.data) : cache_file.data[j].des >= 1
    /\ bpc = "done" =>
          \A p \in Range(image_paths) :
              (\/ img[p].kind = "imread_none"
               \/ img[p].kind = "des" /\ img[p].n \in {NoArray, 0})
                 => ~HasKey(cache_file.data, p)

\* a build with an image giving an empty descriptor array and one giving
\* descriptors: only the second is in the written cache
C6_Witness ==
    /\ bpc = "done"
    /\ \E p, q \in Range(image_paths) :
         /\ img[p].kind = "des" /\ img[p].n = 0
         /\ ~HasKey(cache_file.data, p)
         /\ HasKey(cache_file.data, q)

-----------------------------------------------------------------------------
(* Properties of a pipeline run, under SpecPipeline and SpecConcurrent *)

\* Searcher(DESCRIPTORS_CACHE_PATH) found something other than a complete cache
LoadedBadArtifact == load_saw \in {"absent", "truncated"}

\* C11: constructing a Searcher from a missing, unreadable or corrupt cache
\* artifact fails: no Searcher instance results, no query is ever answered
\* from it, and the caller performs no search and ends with an empty list
C11_ConstructionFails ==
    LoadedBadArtifact =>
        /\ spc = "construct_failed"
        /\ cached_data = <<>>
        /\ query = Unknown /\ evals = <<>> /\ result = None
        /\ qi = 0
        /\ results_with_indices = <<>> /\ final_list = <<>>
        /\ ppc \in {"stage3", "end"}

C11_Witness == load_saw = "truncated" /\ nqueries > 0 /\ ppc = "end"

-----------------------------------------------------------------------------
(* Further properties of the build stage, under SpecBuild *)

\* C12: given an empty reference image set the build refuses to run and
\* reports failure: the loop and the write never start, and the file at the
\* cache path is left exactly as it was
C12_EmptySetRefused ==
    /\ [](image_paths = <<>> =>
            /\ bpc \in {"start", "refused"}
            /\ data_to_cache = <<>> /\ processed = <<>> /\ writes = 0)
    /\ [][image_paths = <<>> => cache_file' = cache_file]_vars

C12_Witness == image_paths = <<>> /\ bpc = "refused" /\ cache_file.kind = "cache"

-----------------------------------------------------------------------------
(* Properties of one Searcher over several calls, under SpecRepeat *)

-----------------------------------------------------------------------------
(* Properties of the cache entry round trip, under SpecRoundTrip *)

\* C14: serialising an entry's keypoints with _keypoints_to_json, passing the
\* entry through the persisted artifact and rebuilding the keypoints with
\* _json_to_keypoints gives a keypoint list of the same length and order with
\* identical fields, and the same descriptors, so that keypoint i still
\* belongs to descriptor row i
C14_RoundTrip ==
    tpc = "rebuilt" =>
        /\ Len(kp2) = Len(keypoints)
        /\ \A j \in 1..Len(keypoints) :
              /\ kp2[j].pt = keypoints[j].pt
              /\ kp2[j].size = keypoints[j].size
              /\ kp2[j].angle = keypoints[j].angle
              /\ kp2[j].response = keypoints[j].response
              /\ kp2[j].octave = keypoints[j].octave
              /\ kp2[j].class_id = keypoints[j].class_id
        /\ des2 = orb_des
        /\ Len(kp2) = Len(des2)
        /\ [j \in 1..Len(kp2) |-> <<kp2[j], des2[j]>>]
              = [j \in 1..Len(keypoints) |-> <<keypoints[j], orb_des[j]>>]

\* an entry of two different keypoints with different descriptor rows
C14_Witness ==
    /\ tpc = "rebuilt"
    /\ Len(keypoints) >= 2
    /\ keypoints[1] # keypoints[2] /\ orb_des[1] # orb_des[2]
    /\ keypoints[1].size # keypoints[1].angle

-----------------------------------------------------------------------------
(* Properties of runs sharing the cache path, under SpecConcurrent *)

\* C15: build and search are never concurrent on the same cache artifact:
\* also with several runs at the same time, no Searcher loads the artifact
\* while a builder is between opening and finishing the write of that path,
\* and what a Searcher loads is a cache completely written by a finished build
C15_BuildSearchDisjoint ==
    /\ load_saw \in {"none", "cache"}
    /\ (ppc = "queries" /\ load_saw = "cache") => bpc = "done"

-----------------------------------------------------------------------------
(* Properties of one pipeline run, under SpecPipeline *)

\* stage 2 or 3 of the run has been entered
PastBuild == ppc \in {"construct", "queries", "raised", "stage3", "end"}

\* C16: within one run the Searcher is constructed only after the builder
\* has run to completion and written the cache; if the build stage reports
\* failure no Searcher is constructed, no query is processed and nothing is
\* reported or written back
C16_PhaseOrder ==
    /\ (PastBuild \/ spc # "off" \/ load_saw # "none") =>
          /\ bpc = "done"
          /\ writes = 1
          /\ i = Len(image_paths)
    /\ spc \in {"idle", "scan", "returned", "raised"} =>
          /\ cache_file = [kind |-> "cache", data |-> data_to_cache]
          /\ cached_data = data_to_cache
    /\ bpc = "refused" =>
          /\ ppc \in {"stage1", "stopped"}
          /\ spc = "off" /\ load_saw = "none"
          /\ qi = 0 /\ query = Unknown
          /\ results_with_indices = <<>> /\ final_list = <<>>

\* the build refused although an earlier cache and queries were there
C16_Witness == ppc = "stopped" /\ cache_file.kind = "cache" /\ nqueries > 0

-----------------------------------------------------------------------------
(* Properties of the written cache and of both loops, under SpecBuild *)

\* the images of this build that decoded and gave at least one descriptor
StoredByThisBuild ==
    {p \in Range(image_paths) : img[p].kind = "des" /\ Storable(img[p].n)}

\* C17: a build overwrites any prior cache: once create_and_save_cache has
\* completed, the artifact holds exactly the entries this build produced
\* (unique keys, all among this build's input images, each with the value
\* computed in this build) and nothing carried over from the cache that was
\* at the path before
C17_OverwritesPrior ==
    bpc = "done" =>
        /\ cache_file = [kind |-> "cache", data |-> data_to_cache]
        /\ \A j, k \in 1..Len(cache_file.data) :
              cache_file.data[j].path = cache_file.data[k].path => j = k
        /\ {cache_file.data[j].path : j \in 1..Len(cache_file.data)} = StoredByThisBuild
        /\ \A j \in 1..Len(cache_file.data) :
              cache_file.data[j] = Entry(cache_file.data[j].path,
                                         img[cache_file.data[j].path].n)

\* a cache was at the path, with a key this build did not store
C17_Witness ==
    /\ bpc = "done"
    /\ prior.kind = "cache"
    /\ prior.data[1].path \notin StoredByThisBuild
    /\ cache_file.data # <<>>

-----------------------------------------------------------------------------
(* Build-time order seen by the search, under SpecPipeline *)

\* the members of K in the order of their first occurrence in s
RECURSIVE FirstSeen(_, _)
FirstSeen(s, K) ==
    IF s = <<>> THEN <<>>
    ELSE LET r == FirstSeen(SubSeq(s, 1, Len(s) - 1), K)
             x == s[Len(s)]
         IN  IF x \in K /\ x \notin Range(r) THEN Append(r, x) ELSE r

\* the position at which p first occurs in s
FirstIndex(s, p) == CHOOSE j \in 1..Len(s) : s[j] = p /\ \A k \in 1..(j - 1) : s[k] # p

\* the entries scanned so far that reached the largest inlier count
TopEntries == {j \in 1..Len(evals) : evals[j].support = max_inliers}

\* C18: find_match scans the cache entries in the order in which the builder
\* inserted them, which is the order of first occurrence in the builder's
\* input sequence, kept through persist and load; so among reference images
\* tied on the maximal inlier count the one earliest in the input is returned
C18_BuildOrderTieBreak ==
    spc \in {"idle", "scan", "returned", "raised"} =>
        /\ [j \in 1..Len(cached_data) |-> cached_data[j].path]
              = FirstSeen(image_paths, StoredByThisBuild)
        /\ \A j \in 1..Len(evals) : evals[j].path = cached_data[j].path
        /\ (spc = "returned" /\ result # None) =>
              /\ \E j \in TopEntries : evals[j].path = result
              /\ \A j \in TopEntries :
                    FirstIndex(image_paths, result) <= FirstIndex(image_paths, evals[j].path)

\* two stored images tie on the maximum, one of them listed twice in the input
C18_Witness ==
    /\ spc = "returned" /\ result # None
    /\ Cardinality(TopEntries) >= 2
    /\ Len(image_paths) > Cardinality(Range(image_paths))
    /\ image_paths[Len(image_paths)] = result

-----------------------------------------------------------------------------
(* The result list of a run, under SpecPipeline *)

\* the positions of results_with_indices that carry query index x
ElementsOf(x) == {j \in 1..Len(results_with_indices) : results_with_indices[j].index = x}

\* the element query k (index k - 1) has to contribute, given what find_match
\* returned for it
MatchOf(k) == [index |-> k - 1, src |-> "match", path |-> handled[k].found]

OriginalOf(k) == [index |-> k - 1, src |-> "original", path |-> QueryPath(k)]

\* C19: for every query, if find_match returned an identifier the matched
\* reference file is the one copied, otherwise the original is copied when
\* keep_unmatched_images is true and the position is dropped when it is
\* false; the list has at most one path per query index, named by the
\* index, in strictly ascending index order, and is never longer than the
\* number of queries; in main.py every query contributes exactly one element
C19_ResultPolicy ==
    /\ Len(handled) = qi /\ qi <= nqueries
    /\ Len(results_with_indices) <= qi
    /\ \A j \in 1..Len(results_with_indices) :
          /\ results_with_indices[j].index \in 0..(qi - 1)
          /\ j > 1 => results_with_indices[j - 1].index < results_with_indices[j].index
    /\ \A k \in 1..Len(handled) :
          LET el == {results_with_indices[j] : j \in ElementsOf(k - 1)}
              want == IF handled[k].found # None THEN {MatchOf(k)} ELSE {OriginalOf(k)}
          IN  /\ Cardinality(ElementsOf(k - 1)) <= 1
              /\ IF mode = "main" THEN el = want
                 ELSE IF handled[k].found = None /\ ~keep_unmatched_images THEN el = {}
                 ELSE IF handled[k].copy = "ok" THEN el = want
                 ELSE el = {}
    /\ mode = "main" => Len(results_with_indices) = qi
    /\ final_list = IF ppc \in {"stage3", "end"} /\ spc = "idle"
                    THEN results_with_indices ELSE <<>>

\* unmatched images are dropped: the first query has no match and leaves no
\* element, the second has one and is listed under its own index
C19_Witness ==
    /\ ppc = "end" /\ mode = "pipeline" /\ ~keep_unmatched_images
    /\ nqueries = 2 /\ Len(handled) = 2
    /\ handled[1].found = None /\ handled[2].found # None
    /\ final_list = <<MatchOf(2)>>

-----------------------------------------------------------------------------
(* Both loops of a run, under FairLoops *)

\* the builder's loop has run its body once for each image of a prefix of the
\* input, in input order, and the write happens once, after the whole input
BuildLoopInv ==
    /\ bpc \in {"loop", "dump", "done"} =>
          /\ Len(processed) = i
          /\ processed = SubSeq(image_paths, 1, i)
    /\ bpc \in {"dump", "done"} => processed = image_paths
    /\ writes = IF bpc = "done" THEN 1 ELSE 0

\* find_match has evaluated the first idx entries of the cache, each once,
\* in cache order, and returns only after the last one
ScanLoopInv ==
    /\ spc \in {"scan", "returned", "raised"} /\ QueryUsable(query) =>
          /\ Len(evals) = idx /\ idx <= Len(cached_data)
          /\ \A j \in 1..Len(evals) : evals[j].path = cached_data[j].path
          /\ \A j, k \in 1..Len(evals) : evals[j].path = evals[k].path => j = k
    /\ spc = "returned" /\ QueryUsable(query) => Len(evals) = Len(cached_data)

-----------------------------------------------------------------------------
(* C21 *)

\* _process_query_images returned at one of its three early returns: the
\* output directory was not prepared, the Searcher was not constructed, or
\* group 1 is empty
EmptyReturn == load_saw = "none" \/ spc = "construct_failed" \/ nqueries = 0

\* the text of the cell of column h in data row r of a CSV content
CellText(content, r, h) ==
    LET hs == ReadLine(content[1])
        c == CHOOSE j \in 1..Len(hs) : hs[j] = h
    IN  ReadLine(content[r + 1])[c]

\* what the Redis branch of stage 3 does with an empty final list
EmptyListWritten ==
    LET before == ParseCsv(redis_csv) IN
    /\ cpc' = "updated" =>
          /\ before.ok /\ before.rows # <<>>
          /\ disk_csv' = redis_csv'
          /\ disk_csv' = SaveContent(mgr')
          /\ Len(redis_csv') = Len(redis_csv)
          /\ ParseCsv(redis_csv').headers = before.headers
          /\ CSV_IMAGE_COLUMN \in Range(before.headers) =>
                /\ mgr'.rows[1][CSV_IMAGE_COLUMN] = List(<<>>)
                /\ CellText(redis_csv', 1, CSV_IMAGE_COLUMN) = <<>>
          /\ \A r \in 2..Len(before.rows) :
                /\ get_image_links(mgr', r - 1) = get_image_links(before, r - 1)
                /\ get_image_links(ParseCsv(redis_csv'), r - 1) = get_image_links(before, r - 1)
    /\ cpc' # "updated" => redis_csv' = redis_csv /\ disk_csv' = disk_csv

\* C21: in Redis mode, when the Searcher cannot be constructed (or the output
\* directory cannot be prepared, or group 1 is empty) stage 2 returns the
\* empty list and no query is searched; the run still goes on to stage 3,
\* which, when it updates the CSV, empties the image links of row 0, writes
\* the same content to disk and to Redis, and leaves the image links of
\* every other row as they were.
C21_EmptyListStage3 ==
    /\ [](use_redis /\ ppc \in {"stage3", "end"} /\ EmptyReturn =>
            /\ final_list = <<>> /\ results_with_indices = <<>>
            /\ handled = <<>> /\ qi = 0 /\ query = Unknown /\ evals = <<>>)
    /\ [](use_redis /\ spc = "construct_failed" => ppc \in {"stage3", "end"})
    /\ [][use_redis /\ ppc = "stage3" /\ EmptyReturn /\ ppc' # ppc =>
            ppc' = "end" /\ EmptyListWritten]_vars

\* the load failed, stage 3 ran and the CSV of two rows went back to Redis
\* with row 0 emptied and row 1 still holding its links
C21_Witness ==
    /\ use_redis /\ ppc = "end" /\ spc = "construct_failed" /\ cpc = "updated"
    /\ Len(mgr.rows) >= 2
    /\ mgr.rows[1][CSV_IMAGE_COLUMN] = List(<<>>)
    /\ mgr.rows[2][CSV_IMAGE_COLUMN] = List(<<<<"a">>, <<"b">>>>)
    /\ redis_csv = disk_csv /\ Len(redis_csv) = 3
    /\ CellText(redis_csv, 1, CSV_IMAGE_COLUMN) = <<>>

-----------------------------------------------------------------------------
(* C22 *)

\* the cells other than the image cell of the row that was set
OtherCellsOf(m, x) ==
    {<<r, h>> \in (1..Len(m.rows)) \X Range(m.headers) :
        ~(r = x + 1 /\ h = CSV_IMAGE_COLUMN)}

\* a link as the parser leaves it: not blank and without surrounding blanks
CleanLink(l) == l # <<>> /\ Strip(l) = l

\* C22: after set_image_links(i, links), save_changes_and_get_content and a
\* new parse of the saved content, get_image_links(i) returns the list that
\* was set (the empty list included) and every other cell of every row is as
\* it was; with an index out of range set_image_links changes nothing and
\* get_image_links returns the empty list.
C22_LinkRoundTrip ==
    /\ [](cpc = "got" /\ mgr.ok /\ CSV_IMAGE_COLUMN \in Range(mgr.headers) =>
            /\ mgr2.ok /\ mgr2.headers = mgr.headers /\ Len(mgr2.rows) = Len(mgr.rows)
            /\ InRange(mgr, row_index) => got = List(new_links)
            /\ ~InRange(mgr, row_index) => got = List(<<>>)
            /\ \A c \in OtherCellsOf(mgr, row_index) :
                   mgr2.rows[c[1]][c[2]] = mgr.rows[c[1]][c[2]])
    /\ [][SetImageLinks =>
            /\ mgr'.headers = mgr.headers /\ Len(mgr'.rows) = Len(mgr.rows)
            /\ ~InRange(mgr, row_index') => mgr' = mgr
            /\ \A c \in OtherCellsOf(mgr, row_index') :
                   mgr'.rows[c[1]][c[2]] = mgr.rows[c[1]][c[2]]]_vars

\* the same with the list that is set holding at least one link and only
\* clean links
C22_CleanRoundTrip ==
    cpc = "got" /\ mgr.ok /\ CSV_IMAGE_COLUMN \in Range(mgr.headers)
        /\ InRange(mgr, row_index)
        /\ new_links # <<>> /\ (\A j \in 1..Len(new_links) : CleanLink(new_links[j]))
    => got = List(new_links)

\* the empty list was set on a row that exists and came back as the empty string
C22_EmptyComesBackAsStr ==
    cpc = "got" /\ mgr.ok /\ CSV_IMAGE_COLUMN \in Range(mgr.headers)
        /\ InRange(mgr, row_index) /\ new_links = <<>> /\ got = Str(<<>>)

\* everything the claim says except the value read back for the row that was set
C22_RestHolds ==
    /\ [](cpc = "got" /\ mgr.ok /\ CSV_IMAGE_COLUMN \in Range(mgr.headers) =>
            /\ mgr2.ok /\ mgr2.headers = mgr.headers /\ Len(mgr2.rows) = Len(mgr.rows)
            /\ ~InRange(mgr, row_index) => got = List(<<>>)
            /\ \A c \in OtherCellsOf(mgr, row_index) :
                   mgr2.rows[c[1]][c[2]] = mgr.rows[c[1]][c[2]])
    /\ [][SetImageLinks =>
            /\ mgr'.headers = mgr.headers /\ Len(mgr'.rows) = Len(mgr.rows)
            /\ ~InRange(mgr, row_index') => mgr' = mgr
            /\ \A c \in OtherCellsOf(mgr, row_index') :
                   mgr'.rows[c[1]][c[2]] = mgr.rows[c[1]][c[2]]]_vars

====
